---- MODULE Spec2Model ----
(***************************************************************************)
(* Model of the Chatwoot header patches of evolution-api:                  *)
(*   src/src/utils/patch-axios.ts                                          *)
(*   src/src/api/integrations/chatbot/chatwoot/libs/chatwoot-client-patch.ts *)
(* The hooks rewrite the header api_access_token to api-access-token on a  *)
(* request descriptor (the axios config) before it is transmitted.         *)
(*                                                                         *)
(* A header value is a text, modelled as a sequence of characters, so that *)
(* the empty string is <<>> and JavaScript truthiness of a string is       *)
(* "non-empty".  The values a response or an error carries as data are     *)
(* opaque to the hooks; only what JSON.stringify does with them matters.   *)
(***************************************************************************)
EXTENDS Integers, Sequences, FiniteSets, TLC

\* ---------------------------------------------------------------- bounds
MaxLen == 2     \* longest header value, in characters
MaxWrap == 2    \* most wrapper layers stacked on axios.request
MaxInst == 1    \* most axios instances carrying an interceptor

\* ------------------------------------------------------------ data model
Alphabet == {"a"}
Text == UNION {[1..n -> Alphabet] : n \in 0..MaxLen}

US == "api_access_token"
HY == "api-access-token"
XH == "x-request-id"
HeaderNames == {US, HY, XH}
XValues == {<<"a">>}

HeaderMaps ==
    UNION {{h \in [S -> Text] : XH \in S => h[XH] \in XValues} : S \in SUBSET HeaderNames}

NoHeaderMap == [k \in {} |-> <<>>]

Urls == {"/api/v1/accounts/1/contacts", "/api/v1/ping"}

\* A request descriptor: hasHeaders is FALSE when config.headers is absent.
Descriptors ==
    {[hasHeaders |-> TRUE, headers |-> h, url |-> u, method |-> "post", body |-> "payload"] :
        h \in HeaderMaps, u \in Urls}
    \cup
    {[hasHeaders |-> FALSE, headers |-> NoHeaderMap, url |-> u, method |-> "post", body |-> "payload"] :
        u \in Urls}

\* ------------------------------------------------ JavaScript value helpers
Undefined == [def |-> FALSE, v |-> <<>>]

\* headers[k]: the value under k, or undefined
Get(h, k) == IF k \in DOMAIN h THEN [def |-> TRUE, v |-> h[k]] ELSE Undefined

\* truthiness of a string-or-undefined value
Truthy(x) == x.def /\ x.v # <<>>

\* a || b
Or(a, b) == IF Truthy(a) THEN a ELSE b

\* delete headers[k]
Delete(h, k) == [x \in DOMAIN h \ {k} |-> h[x]]

\* headers[k] = v
Put(h, k, v) == [x \in DOMAIN h \cup {k} |-> IF x = k THEN v ELSE h[x]]

\* ------------------------------------------------------ the rewrite hooks
\* the wrapper without its if: the token is read, deleted and written back
\* whether or not api_access_token is set (an undefined token reads as empty)
GlobalRequestHook_NoGuard(config) ==
    IF config.hasHeaders
    THEN LET token == Get(config.headers, US).v
         IN  [config EXCEPT !.headers = Put(Delete(@, US), HY, token)]
    ELSE config

\* axios.request = function (config) {...}: the header rewrite of the wrapper
GlobalRequestHook(config) ==
    IF config.hasHeaders /\ Truthy(Get(config.headers, US))
    THEN LET token == config.headers[US]
         IN  [config EXCEPT !.headers = Put(Delete(@, US), HY, token)]
    ELSE config

\* axios.Axios.prototype.request = function (config) {...}
PrototypeRequestHook(config) ==
    IF config.hasHeaders /\ Truthy(Get(config.headers, US))
    THEN LET token == config.headers[US]
         IN  [config EXCEPT !.headers = Put(Delete(@, US), HY, token)]
    ELSE config

\* the wrapper without its inner if: the copy and the delete always run
DefaultAxiosRequestHook_NoGuard(requestConfig) ==
    IF requestConfig.hasHeaders
    THEN [requestConfig EXCEPT
            !.headers = Delete(Put(@, HY, Get(requestConfig.headers, US).v), US)]
    ELSE requestConfig

\* defaultAxios.request = function (requestConfig) {...}: set, then delete
DefaultAxiosRequestHook(requestConfig) ==
    IF requestConfig.hasHeaders
    THEN IF Truthy(Get(requestConfig.headers, US))
         THEN [requestConfig EXCEPT
                 !.headers = Delete(Put(@, HY, requestConfig.headers[US]), US)]
         ELSE requestConfig
    ELSE requestConfig

\* the interceptor without its if (token): the header is written even when
\* no token was found
InstanceInterceptor_NoGuard(config) ==
    IF config.hasHeaders
    THEN LET token == Or(Get(config.headers, US), Get(config.headers, HY))
         IN  [config EXCEPT !.headers = Put(Delete(@, US), HY, token.v)]
    ELSE config

\* request interceptor of createPatchedAxiosInstance (chatwoot-client-patch.ts)
InstanceInterceptor(config) ==
    IF config.hasHeaders
    THEN LET token == Or(Get(config.headers, US), Get(config.headers, HY))
         IN  IF Truthy(token)
             THEN [config EXCEPT !.headers = Put(Delete(@, US), HY, token.v)]
             ELSE config
    ELSE config

\* request interceptor of createPatchedAxiosInstance with the [DEBUG] logging;
\* JSON.stringify of a mapping of texts returns a string, so the log lines
\* around the rewrite complete
DebugInstanceInterceptor(config) ==
    IF config.hasHeaders
    THEN LET token == Or(Get(config.headers, US), Get(config.headers, HY))
         IN  IF Truthy(token)
             THEN [config EXCEPT !.headers = Put(Delete(@, US), HY, token.v)]
             ELSE config
    ELSE config

\* the interceptor replacing the header mapping by a fresh one that holds
\* the token alone
ClientInterceptor_FreshHeaders(axiosConfig) ==
    IF axiosConfig.hasHeaders
    THEN LET token == Or(Get(axiosConfig.headers, US), Get(axiosConfig.headers, HY))
         IN  IF Truthy(token)
             THEN [axiosConfig EXCEPT !.headers = Put(NoHeaderMap, HY, token.v)]
             ELSE axiosConfig
    ELSE axiosConfig

\* request interceptor createPatchedChatwootClient adds to client.axios
ClientInterceptor(axiosConfig) ==
    IF axiosConfig.hasHeaders
    THEN LET token == Or(Get(axiosConfig.headers, US), Get(axiosConfig.headers, HY))
         IN  IF Truthy(token)
             THEN [axiosConfig EXCEPT !.headers = Put(Delete(@, US), HY, token.v)]
             ELSE axiosConfig
    ELSE axiosConfig

\* ------------------------------------------- responses, errors, promises
\* what a response or an error carries as data, as JSON.stringify sees it:
\* a plain value, undefined (no data), or a value JSON.stringify rejects
\* (a circular structure such as a stream, a BigInt)
DataKinds == {"json", "undefined", "circular"}

Responses == [status : {"200"}, data : DataKinds]
NoResponse == [status |-> "none", data |-> "undefined"]

\* an error of the transmission path; data is error.response?.data
Errors == [id : {"AxiosError"}, data : DataKinds]
NoError == [id |-> "none", data |-> "undefined"]

\* the TypeError a failed logging expression throws
TypeError == [id |-> "TypeError", data |-> "undefined"]

Fulfilled(r) == [st |-> "fulfilled", resp |-> r, err |-> NoError]
Rejected(e) == [st |-> "rejected", resp |-> NoResponse, err |-> e]

\* JSON.stringify(value): a string, undefined, or a throw
JSONstringify(d) ==
    CASE d = "json" -> "string"
      [] d = "undefined" -> "undefined"
      [] d = "circular" -> "throws"

\* (error) => { logger.error('...' + error); return Promise.reject(error); }
InstanceRequestRejected(error) == Rejected(error)

DebugRequestRejected(error) == Rejected(error)

ClientRequestRejected(error) == Rejected(error)

\* response interceptor, fulfilled side:
\* JSON.stringify(response.data).substring(0, 500) throws when stringify
\* throws and when it returns undefined; a throw rejects the promise
DebugResponseFulfilled(response) ==
    IF JSONstringify(response.data) = "string"
    THEN Fulfilled(response)
    ELSE Rejected(TypeError)

\* response interceptor, rejected side:
\* `${JSON.stringify(error.response?.data)}` throws when stringify throws
DebugResponseRejected(error) ==
    IF JSONstringify(error.data) = "throws"
    THEN Rejected(TypeError)
    ELSE Rejected(error)

\* ------------------------------------------------------------------ state
VARIABLES
    patched,        \* let patched (patch-axios.ts)
    axiosRequest,   \* wrapper layers on axios.request, outermost first
    protoRequest,   \* wrapper layers on Axios.prototype.request, outermost first
    instances,      \* axios instances carrying an interceptor, by kind
    pc,             \* stage of the outgoing request
    via,            \* "default" (axios.request) or the kind of the instance used
    chain,          \* wrapper layers the request has still to pass
    req,            \* the request descriptor, mutated in place by the hooks
    orig,           \* the descriptor as the caller constructed it
    prev,           \* the descriptor as the last hook received it
    lastHook,       \* the hook that ran last on the request
    ran,            \* the hooks that ran on the request, in order
    promise,        \* the promise the caller holds
    sent,           \* invocations of the original transmission
    wire,           \* the descriptor the transmission received
    served,         \* the response the transmission returned
    raised          \* the error the transmission path raised

\* the state of the post-install patch script
VARIABLES
    exists,     \* fs.existsSync(SDK_REQUEST_FILE)
    file,       \* the content of request.js on disk
    written,    \* the content on disk before the last run of the script
    exits       \* the exit status of each run of the script, in order

script == <<exists, file, written, exits>>

install == <<patched, axiosRequest, protoRequest, instances>>
flight == <<pc, via, chain, req, orig, prev, lastHook, ran, promise, sent, wire, served, raised>>
vars == <<patched, axiosRequest, protoRequest, instances,
          pc, via, chain, req, orig, prev, lastHook, ran, promise, sent, wire, served, raised,
          exists, file, written, exits>>

NoDescriptor ==
    [hasHeaders |-> FALSE, headers |-> NoHeaderMap, url |-> "", method |-> "", body |-> ""]

Pending == [st |-> "pending", resp |-> NoResponse, err |-> NoError]

Idle ==
    /\ pc = "idle"
    /\ via = "default"
    /\ chain = <<>>
    /\ req = NoDescriptor
    /\ orig = NoDescriptor
    /\ prev = NoDescriptor
    /\ lastHook = "none"
    /\ ran = <<>>
    /\ promise = Pending
    /\ sent = 0
    /\ wire = NoDescriptor
    /\ served = NoResponse
    /\ raised = NoError

\* the post-install script is not part of the running program: while the
\* hooks run, its state stays as it is
ScriptIdle ==
    /\ exists = FALSE
    /\ file = <<>>
    /\ written = <<>>
    /\ exits = <<>>

\* before patch-axios.ts is loaded: nothing is patched, no request is out
Init ==
    /\ patched = FALSE
    /\ axiosRequest = <<>>
    /\ protoRequest = <<>>
    /\ instances = <<>>
    /\ Idle
    /\ ScriptIdle

\* --------------------------------------------------------- installation
\* Hooks are installed between requests: a call captures the wrappers and
\* the interceptors in place when it is made, so an installation made while
\* a request is out does not reach that request.

\* patchAxiosGlobally(), called on module load and by any later caller.
\* throwAt is the step of the try block that throws: require('axios'), the
\* assignment to axios.request, the read of or assignment to
\* axios.Axios.prototype.request, or none; hasAxiosClass is
\* axios.Axios && axios.Axios.prototype.
PatchAxiosGlobally(throwAt, hasAxiosClass) ==
    /\ pc = "idle"
    /\ IF patched
       THEN UNCHANGED vars
       ELSE IF throwAt \in {"require", "request"}
       THEN UNCHANGED vars
       ELSE /\ Len(axiosRequest) < MaxWrap
            /\ axiosRequest' = <<"global">> \o axiosRequest
            /\ IF hasAxiosClass
               THEN IF throwAt = "prototype"
                    THEN UNCHANGED <<protoRequest, patched>>
                    ELSE /\ protoRequest' = <<"proto">> \o protoRequest
                         /\ patched' = TRUE
               ELSE /\ patched' = TRUE
                    /\ UNCHANGED protoRequest
            /\ UNCHANGED instances
            /\ UNCHANGED flight
            /\ UNCHANGED script

\* createPatchedAxiosInstance() of chatwoot-client-patch.ts: a new instance
\* with the request interceptor
CreatePatchedAxiosInstance ==
    /\ pc = "idle"
    /\ Len(instances) < MaxInst
    /\ instances' = Append(instances, "instance")
    /\ UNCHANGED <<patched, axiosRequest, protoRequest>>
    /\ UNCHANGED flight
    /\ UNCHANGED script

\* createPatchedAxiosInstance() with the [DEBUG] request and response
\* interceptors
CreatePatchedAxiosInstanceDebug ==
    /\ pc = "idle"
    /\ Len(instances) < MaxInst
    /\ instances' = Append(instances, "debug")
    /\ UNCHANGED <<patched, axiosRequest, protoRequest>>
    /\ UNCHANGED flight
    /\ UNCHANGED script

\* createPatchedChatwootClient(config) that adds an interceptor to
\* client.axios; throws is a throw of the require or of the constructor,
\* hasAxios is client.axios?.interceptors
CreatePatchedChatwootClient(throws, hasAxios) ==
    /\ pc = "idle"
    /\ IF throws \/ ~hasAxios
       THEN UNCHANGED vars
       ELSE /\ Len(instances) < MaxInst
            /\ instances' = Append(instances, "client")
            /\ UNCHANGED <<patched, axiosRequest, protoRequest>>
            /\ UNCHANGED flight
            /\ UNCHANGED script

\* createPatchedChatwootClient(config) that re-wraps defaultAxios.request;
\* throwAt is "require" (nothing is installed yet), "construct" (new
\* ChatwootClient throws after the wrapper is in place) or "none"
CreatePatchedChatwootClientSdk(throwAt) ==
    /\ pc = "idle"
    /\ IF throwAt = "require"
       THEN UNCHANGED vars
       ELSE /\ Len(axiosRequest) < MaxWrap
            /\ axiosRequest' = <<"sdk">> \o axiosRequest
            /\ UNCHANGED <<patched, protoRequest, instances>>
            /\ UNCHANGED flight
            /\ UNCHANGED script

\* ------------------------------------------------------------ one request
\* where a request goes once the wrappers have passed it on: the default
\* axios has no interceptor, an instance runs its request interceptor
AfterWrappers(v) == IF v = "default" THEN "dispatch" ELSE "interceptors"

\* a caller sends descriptor d through axios.request (target 0) or through
\* the request method of instance number target
Request(d, target) ==
    /\ pc = "idle"
    /\ LET v == IF target = 0 THEN "default" ELSE instances[target]
           c == IF target = 0 THEN axiosRequest ELSE protoRequest
       IN  /\ via' = v
           /\ chain' = c
           /\ pc' = IF c = <<>> THEN AfterWrappers(v) ELSE "wrappers"
    /\ req' = d
    /\ orig' = d
    /\ prev' = d
    /\ promise' = Pending
    /\ UNCHANGED <<lastHook, ran, sent, wire, served, raised>>
    /\ UNCHANGED install
    /\ UNCHANGED script

\* a wrapper layer runs its rewrite and calls the layer below
Wrapper(name, out) ==
    /\ pc = "wrappers"
    /\ chain # <<>>
    /\ Head(chain) = name
    /\ prev' = req
    /\ req' = out
    /\ lastHook' = name
    /\ ran' = Append(ran, name)
    /\ chain' = Tail(chain)
    /\ pc' = IF Tail(chain) = <<>> THEN AfterWrappers(via) ELSE "wrappers"
    /\ UNCHANGED <<via, orig, promise, sent, wire, served, raised>>
    /\ UNCHANGED install
    /\ UNCHANGED script

AxiosRequest == Wrapper("global", GlobalRequestHook(req))

AxiosPrototypeRequest == Wrapper("proto", PrototypeRequestHook(req))

DefaultAxiosRequest == Wrapper("sdk", DefaultAxiosRequestHook(req))

\* the fulfilled side of the instance's request interceptor
Interceptor(name, out) ==
    /\ pc = "interceptors"
    /\ via = name
    /\ prev' = req
    /\ req' = out
    /\ lastHook' = name
    /\ ran' = Append(ran, name)
    /\ pc' = "dispatch"
    /\ UNCHANGED <<via, chain, orig, promise, sent, wire, served, raised>>
    /\ UNCHANGED install
    /\ UNCHANGED script

InstanceRequestUse == Interceptor("instance", InstanceInterceptor(req))

DebugRequestUse == Interceptor("debug", DebugInstanceInterceptor(req))

ClientRequestUse == Interceptor("client", ClientInterceptor(req))

\* the rejected side of the instance's request interceptor: an interceptor
\* registered on the instance after it rejected with error e
RequestRejected(e) ==
    /\ pc = "interceptors"
    /\ raised' = e
    /\ promise' = CASE via = "instance" -> InstanceRequestRejected(e)
                    [] via = "debug" -> DebugRequestRejected(e)
                    [] via = "client" -> ClientRequestRejected(e)
    /\ pc' = "dispatch"
    /\ UNCHANGED <<via, chain, req, orig, prev, lastHook, ran, sent, wire, served>>
    /\ UNCHANGED install
    /\ UNCHANGED script

\* where the promise goes after the transmission: the [DEBUG] instance has
\* a response interceptor
AfterDispatch(v) == IF v = "debug" THEN "response" ELSE "settled"

\* the original transmission (originalRequest / dispatchRequest): it is
\* skipped when the promise is already rejected; otherwise it receives the
\* descriptor and answers with a response or raises an error
Transmit(outcome) ==
    /\ pc = "dispatch"
    /\ IF promise.st = "rejected"
       THEN UNCHANGED <<sent, wire, served, raised, promise>>
       ELSE /\ sent' = sent + 1
            /\ wire' = req
            /\ promise' = outcome
            /\ served' = outcome.resp
            /\ raised' = outcome.err
    /\ pc' = AfterDispatch(via)
    /\ UNCHANGED <<via, chain, req, orig, prev, lastHook, ran>>
    /\ UNCHANGED install
    /\ UNCHANGED script

Outcomes == {Fulfilled(r) : r \in Responses} \cup {Rejected(e) : e \in Errors}

\* the response interceptor of the [DEBUG] instance
DebugResponseUse ==
    /\ pc = "response"
    /\ promise' = IF promise.st = "fulfilled"
                  THEN DebugResponseFulfilled(promise.resp)
                  ELSE DebugResponseRejected(promise.err)
    /\ pc' = "settled"
    /\ UNCHANGED <<via, chain, req, orig, prev, lastHook, ran, sent, wire, served, raised>>
    /\ UNCHANGED install
    /\ UNCHANGED script

\* the caller has the outcome; the descriptor is discarded
Complete ==
    /\ pc = "settled"
    /\ pc' = "idle"
    /\ via' = "default"
    /\ chain' = <<>>
    /\ req' = NoDescriptor
    /\ orig' = NoDescriptor
    /\ prev' = NoDescriptor
    /\ lastHook' = "none"
    /\ ran' = <<>>
    /\ promise' = Pending
    /\ sent' = 0
    /\ wire' = NoDescriptor
    /\ served' = NoResponse
    /\ raised' = NoError
    /\ UNCHANGED install
    /\ UNCHANGED script

ThrowPoints == {"none", "require", "request", "prototype"}
SdkThrowPoints == {"none", "require", "construct"}

Next ==
    \/ \E t \in ThrowPoints, c \in BOOLEAN : PatchAxiosGlobally(t, c)
    \/ CreatePatchedAxiosInstance
    \/ CreatePatchedAxiosInstanceDebug
    \/ \E t \in BOOLEAN, a \in BOOLEAN : CreatePatchedChatwootClient(t, a)
    \/ \E t \in SdkThrowPoints : CreatePatchedChatwootClientSdk(t)
    \/ \E d \in Descriptors, target \in 0..Len(instances) : Request(d, target)
    \/ AxiosRequest
    \/ AxiosPrototypeRequest
    \/ DefaultAxiosRequest
    \/ InstanceRequestUse
    \/ DebugRequestUse
    \/ ClientRequestUse
    \/ \E e \in Errors : RequestRejected(e)
    \/ \E o \in Outcomes : Transmit(o)
    \/ DebugResponseUse
    \/ Complete

\* ------------------------------------------- the post-install patch script
\* The script edits node_modules/@figuro/chatwoot-sdk/dist/core/request.js.
\* The file's content is a sequence of segments; what the script asks of a
\* segment is whether it is the assignment it looks for, and whether it holds
\* the text api-access-token.
MaxSegments == 3    \* most segments of request.js
MaxRuns == 2        \* most runs of the script

\* 'headers["api_access_token"] = token;'
originalLine == "headers[\"api_access_token\"] = token;"

\* 'headers["api-access-token"] = token;'
patchedLine == "headers[\"api-access-token\"] = token;"

\* other text of the file: one that mentions api-access-token (a comment,
\* another statement) and one that mentions neither
hyphenText == "/* api-access-token */"
otherText == "const token = await resolve(options, config.TOKEN);"

Segments == {originalLine, patchedLine, hyphenText, otherText}

FileContents == UNION {[1..n -> Segments] : n \in 0..MaxSegments}

\* content.includes('api-access-token')
IncludesHyphen(content) ==
    \E i \in 1..Len(content) : content[i] \in {patchedLine, hyphenText}

\* content.includes(originalLine)
IncludesOriginal(content) ==
    \E i \in 1..Len(content) : content[i] = originalLine

\* content.replace(originalLine, patchedLine): a string pattern replaces
\* the first occurrence only
Replace(content) ==
    IF IncludesOriginal(content)
    THEN LET first == CHOOSE i \in 1..Len(content) :
                          /\ content[i] = originalLine
                          /\ \A j \in 1..(i - 1) : content[j] # originalLine
         IN  [content EXCEPT ![first] = patchedLine]
    ELSE content

\* one run of the script, from the existence test to the exit; ioError is
\* a throw of readFileSync ("read") or of writeFileSync ("write"), which
\* the catch turns into exit status 1 (a failed write is taken to leave the
\* file as it was)
PatchScript(ioError) ==
    /\ Len(exits) < MaxRuns
    /\ written' = file
    /\ UNCHANGED exists
    /\ UNCHANGED <<install, flight>>
    /\ IF ~exists
       THEN /\ exits' = Append(exits, 0)
            /\ UNCHANGED file
       ELSE IF ioError = "read"
       THEN /\ exits' = Append(exits, 1)
            /\ UNCHANGED file
       ELSE IF IncludesHyphen(file)
       THEN /\ exits' = Append(exits, 0)
            /\ UNCHANGED file
       ELSE IF ~IncludesOriginal(file)
       THEN /\ exits' = Append(exits, 1)
            /\ UNCHANGED file
       ELSE IF ioError = "write"
       THEN /\ exits' = Append(exits, 1)
            /\ UNCHANGED file
       ELSE /\ file' = Replace(file)
            /\ exits' = Append(exits, 0)

IoErrors == {"none", "read", "write"}

\* before the script runs: request.js is absent, or holds any content; the
\* program is not running
ScriptInit ==
    /\ patched = FALSE
    /\ axiosRequest = <<>>
    /\ protoRequest = <<>>
    /\ instances = <<>>
    /\ Idle
    /\ exists \in BOOLEAN
    /\ file \in FileContents
    /\ ~exists => file = <<>>
    /\ written = file
    /\ exits = <<>>

Spec == Init /\ [][Next]_vars

ScriptNext == \E f \in IoErrors : PatchScript(f)

\* the post-install script alone, run and run again
ScriptSpec == ScriptInit /\ [][ScriptNext]_vars

\* ---------------------------------------------------------------- claims
\* the rewrite a hook performs, by the hook's name
HookRewrite(name, config) ==
    CASE name = "global" -> GlobalRequestHook(config)
      [] name = "proto" -> PrototypeRequestHook(config)
      [] name = "sdk" -> DefaultAxiosRequestHook(config)
      [] name = "instance" -> InstanceInterceptor(config)
      [] name = "debug" -> DebugInstanceInterceptor(config)
      [] name = "client" -> ClientInterceptor(config)

\* a hook has run on the request: prev is what it received, req what it
\* handed on
HookRan == lastHook # "none"

Has(config, k) == config.hasHeaders /\ k \in DOMAIN config.headers

\* C1: a descriptor holding api_access_token = v (any text, the empty
\* string included) and no api-access-token leaves every hook with no
\* api_access_token key and with api-access-token = v.
C1_UnderscoreOnlyRenamed ==
    (HookRan /\ Has(prev, US) /\ ~Has(prev, HY))
        => /\ ~Has(req, US)
           /\ Has(req, HY)
           /\ req.headers[HY] = prev.headers[US]

\* C2: after any hook has run on a descriptor with a header mapping, the
\* mapping holds no api_access_token key.
C2_NoUnderscoreKeyAfterHook ==
    (HookRan /\ req.hasHeaders) => ~Has(req, US)

\* C3: a descriptor holding both keys, api_access_token = v1 and
\* api-access-token = v2, leaves every hook with api-access-token = v1 and
\* no api_access_token key.
C3_UnderscoreTakesPrecedence ==
    (HookRan /\ Has(prev, US) /\ Has(prev, HY))
        => /\ ~Has(req, US)
           /\ Has(req, HY)
           /\ req.headers[HY] = prev.headers[US]

\* C4: a descriptor without an api_access_token key (only api-access-token,
\* neither key, or no header mapping) leaves every hook unchanged.
C4_NoUnderscoreKeyUnchanged ==
    (HookRan /\ ~Has(prev, US)) => req = prev

C4_Witness ==
    /\ lastHook = "instance"
    /\ Has(prev, HY)
    /\ ~Has(prev, US)
    /\ prev.headers[HY] # <<>>
    /\ req = prev

\* C5: the rewrite of every hook is idempotent: running the hook that has
\* just run once more on the descriptor it handed on changes nothing.
C5_Idempotent ==
    HookRan => HookRewrite(lastHook, req) = req

C5_Witness ==
    /\ lastHook = "global"
    /\ Has(prev, US)
    /\ req # prev
    /\ HookRewrite(lastHook, req) = req

C7_ErrorReachesCallerUnchanged ==
    (pc = "settled" /\ raised # NoError) => promise = Rejected(raised)

\* C8: a failing logging step never aborts the request: a request on which
\* the transmission path raised no error was forwarded to the transmission
\* and the response it returned is the caller's result.
C8_LoggingNeverAborts ==
    (pc = "settled" /\ raised = NoError)
        => /\ sent = 1
           /\ promise = Fulfilled(served)

\* the request was rejected before the transmission by an error handed to
\* the interceptor's error handler
RejectedUpstream == sent = 0 /\ raised # NoError

\* C9: whatever hooks are installed, a request they let through invokes the
\* original transmission exactly once, and the descriptor the transmission
\* receives is what one of the hooks alone makes of the caller's descriptor.
C9_TransmittedOnceAsBySingleHook ==
    (pc \in {"response", "settled"} /\ ~RejectedUpstream)
        => /\ sent = 1
           /\ ran # <<>> => \E i \in 1..Len(ran) : wire = HookRewrite(ran[i], orig)

C9_Witness ==
    /\ pc = "settled"
    /\ Len(ran) >= 2
    /\ sent = 1
    /\ Has(orig, US)
    /\ wire # orig

Layers(stack, name) == Cardinality({i \in 1..Len(stack) : stack[i] = name})

\* C10: after any sequence of patchAxiosGlobally calls, throwing ones
\* included, axios.request and Axios.prototype.request each carry at most
\* one wrapper layer installed by patchAxiosGlobally.
C10_AtMostOneGlobalLayer ==
    /\ Layers(axiosRequest, "global") <= 1
    /\ Layers(protoRequest, "proto") <= 1


\* the last run of the script
LastExit == exits[Len(exits)]

\* C11 (first half): when the script has exited with status 0 and
\* request.js exists, the file holds no occurrence of the assignment
\* headers["api_access_token"] = token;
C11_NoOriginalAfterExit0 ==
    (exits # <<>> /\ LastExit = 0 /\ exists) => ~IncludesOriginal(file)

\* C11 (second half): a run that follows a run that exited with status 0
\* leaves the file as it was.
C11_RerunLeavesFileUnchanged ==
    (Len(exits) >= 2 /\ exits[Len(exits) - 1] = 0 /\ exists) => file = written

\* C11: whenever the script exits with status 0 and request.js exists, the
\* file afterwards holds no occurrence of headers["api_access_token"] = token;
\* and running the script again leaves the file unchanged.
C11_PatchedAndStable ==
    /\ C11_NoOriginalAfterExit0
    /\ C11_RerunLeavesFileUnchanged

====
